---- MODULE Spec2Model ----
(***************************************************************************)
(* Route search of the maglev REST API: searchRouteHandler and             *)
(* buildRouteSearchTerm (internal/restapi/search_route_handler.go).        *)
(*                                                                         *)
(* Strings are sequences of one-character strings, so that trimming,       *)
(* splitting, quoting and joining are computed character by character.     *)
(***************************************************************************)
EXTENDS Integers, Sequences, FiniteSets, TLC

\* ------------------------------------------------------------------ bounds
MaxInputLen == 2
MaxCountLen == 2
MaxTermLen == 4
MaxRoutes == 3

\* ------------------------------------------------------- program constants
defaultMaxCount == 20

\* An error or a message is a sequence: its text, then the values formatted
\* into it; nil is the empty sequence.
NIL == <<>>

SP == " "
DQ == "\""
SQ == "'"
STAR == "*"

\* Characters of the raw query: two letters, whitespace, the two quote
\* characters and one character the general sanitation pass treats as unsafe.
Whitespace == {SP}
Quotes == {DQ, SQ}
UnsafeChars == {"#"}
InputAlphabet == {"a", "b"} \cup Whitespace \cup Quotes \cup UnsafeChars

\* Characters of the maxCount parameter.
CountAlphabet == {"0", "1", "2", "-"}

Strs(A, n) == UNION {[1..k -> A] : k \in 0..n}

Inputs == Strs(InputAlphabet, MaxInputLen)

\* maxCount values of the handler's tests ("abc", "-5", "3.5", "999") and the
\* values at the edge of the signed 64-bit range.
MaxInt64Digits ==
    <<"9","2","2","3","3","7","2","0","3","6","8","5","4","7","7","5","8","0","7">>
MinInt64Digits ==
    <<"9","2","2","3","3","7","2","0","3","6","8","5","4","7","7","5","8","0","8">>
ExtraCounts ==
    { <<"a","b","c">>, <<"-","5">>, <<"3",".","5">>, <<"9","9","9">>,
      <<"+","5">>, MaxInt64Digits, MinInt64Digits,
      <<"-">> \o MinInt64Digits }

Counts == Strs(CountAlphabet, MaxCountLen) \cup ExtraCounts

\* ------------------------------------------------------------ messages
MsgInputRequired == <<"input parameter is required">>
MsgPositive == <<"maxCount must be a positive integer">>
\* fmt.Sprintf("maxCount must not exceed %d", n): the text and the number.
MsgExceed(n) == <<"maxCount must not exceed ", n>>
\* The error utils.ValidateAndSanitizeQuery returns when it rejects a query.
ErrSanitizer == <<"ValidateAndSanitizeQuery error">>
ErrContext == <<"context canceled">>
ErrStore == <<"store error">>

\* ------------------------------------------------------------ strings
IsSpace(c) == c \in Whitespace

RECURSIVE TrimLeft(_)
TrimLeft(s) ==
    IF s = <<>> THEN <<>>
    ELSE IF IsSpace(Head(s)) THEN TrimLeft(Tail(s)) ELSE s

RECURSIVE TrimRight(_)
TrimRight(s) ==
    IF s = <<>> THEN <<>>
    ELSE IF IsSpace(s[Len(s)]) THEN TrimRight(SubSeq(s, 1, Len(s) - 1)) ELSE s

\* strings.TrimSpace
TrimSpace(s) == TrimRight(TrimLeft(s))

RECURSIVE FieldsRec(_, _, _)
FieldsRec(rest, cur, acc) ==
    IF rest = <<>>
    THEN IF cur = <<>> THEN acc ELSE Append(acc, cur)
    ELSE IF IsSpace(Head(rest))
         THEN FieldsRec(Tail(rest), <<>>, IF cur = <<>> THEN acc ELSE Append(acc, cur))
         ELSE FieldsRec(Tail(rest), Append(cur, Head(rest)), acc)

\* strings.Fields: the maximal runs of non-whitespace characters, in order.
Fields(s) == FieldsRec(s, <<>>, <<>>)

RECURSIVE Join(_, _)
\* strings.Join
Join(parts, sep) ==
    IF parts = <<>> THEN <<>>
    ELSE IF Len(parts) = 1 THEN parts[1]
    ELSE parts[1] \o sep \o Join(Tail(parts), sep)

\* ------------------------------------------------------ strconv.ParseInt
DigitChars == <<"0", "1", "2", "3", "4", "5", "6", "7", "8", "9">>
Digits == {DigitChars[i] : i \in 1..10}
DigitVal(c) == (CHOOSE i \in 1..10 : DigitChars[i] = c) - 1

RECURSIVE StripZeros(_)
StripZeros(d) ==
    IF d # <<>> /\ Head(d) = "0" THEN StripZeros(Tail(d)) ELSE d

RECURSIVE LexGreater(_, _)
\* a > b for digit strings of equal length
LexGreater(a, b) ==
    IF a = <<>> THEN FALSE
    ELSE IF DigitVal(Head(a)) # DigitVal(Head(b))
         THEN DigitVal(Head(a)) > DigitVal(Head(b))
         ELSE LexGreater(Tail(a), Tail(b))

\* The number written by the digits a is greater than the one written by b.
DigitsGreater(a, b) ==
    LET x == StripZeros(a)
        y == StripZeros(b)
    IN  IF Len(x) # Len(y) THEN Len(x) > Len(y) ELSE LexGreater(x, y)

\* Values are kept exactly up to ValueCap; a larger value is held as ValueCap,
\* which every comparison the handler makes (<= 0, > defaultMaxCount) cannot
\* tell from the exact value.
ValueCap == defaultMaxCount + 1

RECURSIVE DigitsValue(_, _)
DigitsValue(d, n) ==
    IF d = <<>> THEN n
    ELSE LET n1 == n * 10 + DigitVal(Head(d))
         IN  DigitsValue(Tail(d), IF n1 > ValueCap THEN ValueCap ELSE n1)

\* strconv.ParseInt(s, 10, 64): an optional sign, then one or more decimal
\* digits; a value outside the signed 64-bit range is a range error.
ParseInt(s) ==
    LET neg == s # <<>> /\ Head(s) = "-"
        signed == s # <<>> /\ Head(s) \in {"+", "-"}
        d == IF signed THEN Tail(s) ELSE s
    IN  IF d = <<>> \/ \E i \in 1..Len(d) : d[i] \notin Digits
        THEN [value |-> 0, err |-> <<"syntax">>]
        ELSE IF DigitsGreater(d, IF neg THEN MinInt64Digits ELSE MaxInt64Digits)
        THEN [value |-> IF neg THEN 0 - ValueCap ELSE ValueCap, err |-> <<"range">>]
        ELSE [value |-> IF neg THEN 0 - DigitsValue(d, 0) ELSE DigitsValue(d, 0),
              err |-> NIL]

\* ------------------------------------------------- buildRouteSearchTerm
HasUnsafe(s) == \E i \in 1..Len(s) : s[i] \in UnsafeChars

\* utils.ValidateAndSanitizeQuery: the general sanitation pass. It rejects or
\* strips the characters that are unsafe for the storage layer; `rejects`
\* says which of the two it does with a query that has such characters.
ValidateAndSanitizeQuery(query, rejects) ==
    IF rejects /\ HasUnsafe(query)
    THEN [value |-> <<>>, err |-> ErrSanitizer]
    ELSE [value |-> SelectSeq(query, LAMBDA c : c \notin UnsafeChars), err |-> NIL]

\* A strings.Map call that keeps every character.
DropQuotes_keep(term) == term

\* The strings.Map call: drop the quote characters.
DropQuotes(term) == SelectSeq(term, LAMBDA c : c \notin Quotes)

\* The term quoted without its trailing wildcard.
QuoteTerm_noWildcard(clean) == <<DQ>> \o clean \o <<DQ>>

\* fmt.Sprintf("\"%s\"*", clean)
QuoteTerm(clean) == <<DQ>> \o clean \o <<DQ, STAR>>

RECURSIVE EscapeTerms(_)
\* The loop over terms: clean each, skip the empty ones, quote the others.
EscapeTerms(terms) ==
    IF terms = <<>> THEN <<>>
    ELSE LET clean == TrimSpace(DropQuotes(Head(terms)))
         IN  IF clean = <<>>
             THEN EscapeTerms(Tail(terms))
             ELSE <<QuoteTerm(clean)>> \o EscapeTerms(Tail(terms))

AndSep == <<" ", "A", "N", "D", " ">>

buildRouteSearchTerm(in, rejects) ==
    IF TrimSpace(in) = <<>>
    THEN [value |-> <<>>, err |-> MsgInputRequired]
    ELSE LET sanitized == ValidateAndSanitizeQuery(in, rejects)
         IN  IF sanitized.err # NIL
             THEN [value |-> <<>>, err |-> sanitized.err]
             ELSE LET terms == Fields(sanitized.value)
                      escaped == EscapeTerms(terms)
                  IN  IF Len(terms) = 0
                      THEN [value |-> <<>>, err |-> MsgInputRequired]
                      ELSE IF Len(escaped) = 0
                      THEN [value |-> <<>>, err |-> MsgInputRequired]
                      ELSE [value |-> Join(escaped, AndSep), err |-> NIL]

\* ------------------------------------------------------------ the store
\* GtfsManager.GetAgencies(): the agency catalog.
Agencies == <<"A1", "A2", "A3">>
\* Agencies that own routes.
RouteAgencies == {"A1", "A2"}

\* The rows matching a query, in the store's ranking order: row i is the
\* route with local id i.
Matches ==
    UNION { { [i \in 1..k |-> [ID |-> i, AgencyID |-> f[i]]] :
              f \in [1..k -> RouteAgencies] } : k \in 0..MaxRoutes }

Min(a, b) == IF a < b THEN a ELSE b

\* SearchRoutesByName: the first MaxCount matching rows (LIMIT MaxCount).
SearchRoutesByName(matching, MaxCount) == SubSeq(matching, 1, Min(Len(matching), MaxCount))

\* utils.FormCombinedID
FormCombinedID(agencyID, id) == <<agencyID, "_", id>>

\* models.NewRoute
NewRoute(route) == [id |-> FormCombinedID(route.AgencyID, route.ID), agencyId |-> route.AgencyID]

\* utils.FilterAgencies: the agencies of the catalog whose id is in the set.
FilterAgencies(all, ids) == SelectSeq(all, LAMBDA a : a \in ids)

\* MaxCount: maxCount, no extra row.
OverFetch_none(limit) == limit

\* MaxCount: maxCount + 1, fetch one extra to detect truncation
OverFetch(limit) == limit + 1

\* limitExceeded := int64(len(routes)) >= maxCount
LimitExceeded_ge(routes, limit) == Len(routes) >= limit

\* limitExceeded := int64(len(routes)) > maxCount
LimitExceeded(routes, limit) == Len(routes) > limit

\* The rows are never trimmed.
Trim_none(routes, limit) == routes

\* routes = routes[:maxCount] when the limit is exceeded
Trim(routes, limit) ==
    IF LimitExceeded(routes, limit) THEN SubSeq(routes, 1, limit) ELSE routes

\* The loop over the retained routes: agencyIDs[route.AgencyID] = true
AgencyIDsOf(routes) == {routes[i].AgencyID : i \in 1..Len(routes)}

\* The loop over the retained routes: routesList = append(routesList, ...)
RoutesList(routes) == [i \in 1..Len(routes) |-> NewRoute(routes[i])]

\* ------------------------------------------------------------ responses
NoFieldErrors == <<>>
NoData == [present |-> FALSE]
NoResponse == [status |-> 0, fieldErrors |-> NoFieldErrors, data |-> NoData]

\* api.validationErrorResponse
validationErrorResponse(fieldErrors) ==
    [status |-> 400, fieldErrors |-> fieldErrors, data |-> NoData]

\* api.serverErrorResponse: a generic envelope, the error is not in the body
serverErrorResponse(err) ==
    [status |-> 500, fieldErrors |-> NoFieldErrors, data |-> NoData]

\* A list response without the limitExceeded field.
okResponse_noLimitExceeded(limitExceeded, list, agencies) ==
    [status |-> 200, fieldErrors |-> <<>>,
     data |-> [present |-> TRUE, list |-> list, agencies |-> agencies]]

\* models.NewOKResponse(...) sent by api.sendResponse
okResponse(limitExceeded, list, agencies) ==
    [status |-> 200, fieldErrors |-> NoFieldErrors,
     data |-> [present |-> TRUE, limitExceeded |-> limitExceeded,
               list |-> list, agencies |-> agencies]]

\* ------------------------------------------------------------ state
VARIABLES
    pc,            \* where the handler is in the request
    input,         \* the request's input parameter ("" when absent)
    maxCountStr,   \* the request's maxCount parameter ("" when absent)
    ctxCanceled,   \* ctx.Err() != nil
    passRejects,       \* what the sanitation pass did with unsafe characters
    searchTerm,    \* local searchTerm
    maxCount,      \* local maxCount
    ctxSeen,       \* what the handler's ctx.Err() check saw
    requested,     \* the MaxCount of the store queries issued
    stored,        \* the rows matching in the store when the query ran
    routes,        \* the rows the store returned
    storeErr,      \* the error the store returned
    response,      \* the response written
    responses,     \* number of responses written
    built          \* the outcome of a direct call of buildRouteSearchTerm

vars == <<pc, input, maxCountStr, ctxCanceled, passRejects, searchTerm, maxCount,
          ctxSeen, requested, stored, routes, storeErr, response, responses, built>>

NoResult == [value |-> <<>>, err |-> <<"not called">>]

Init ==
    /\ pc = "idle"
    /\ input = <<>>
    /\ maxCountStr = <<>>
    /\ ctxCanceled = FALSE
    /\ passRejects = FALSE
    /\ searchTerm = <<>>
    /\ maxCount = 0
    /\ ctxSeen = "unchecked"
    /\ requested = <<>>
    /\ stored = <<>>
    /\ routes = <<>>
    /\ storeErr = NIL
    /\ response = NoResponse
    /\ responses = 0
    /\ built = NoResult

\* A request arrives: r.URL.Query(), queryParams.Get("input").
Receive ==
    /\ pc = "idle"
    /\ \E in \in Inputs, mc \in Counts :
          /\ input' = in
          /\ maxCountStr' = mc
    /\ pc' = "input"
    /\ UNCHANGED <<built, ctxCanceled, passRejects, searchTerm, maxCount, ctxSeen, requested,
                   stored, routes, storeErr, response, responses>>

\* The caller disconnects or the deadline passes while the request is handled.
Cancel ==
    /\ pc \in {"input", "maxCount", "ctx", "query", "wait"}
    /\ ~ctxCanceled
    /\ ctxCanceled' = TRUE
    /\ UNCHANGED <<built, pc, input, maxCountStr, passRejects, searchTerm, maxCount, ctxSeen,
                   requested, stored, routes, storeErr, response, responses>>

\* The input check without its early return: the error is dropped.
ValidateInput_noReturn ==
    /\ pc = "input"
    /\ \E rj \in (IF HasUnsafe(input) THEN BOOLEAN ELSE {FALSE}) :
          /\ passRejects' = rj
          /\ searchTerm' = buildRouteSearchTerm(input, rj).value
    /\ pc' = "maxCount"
    /\ UNCHANGED <<built, input, maxCountStr, ctxCanceled, maxCount, ctxSeen, requested,
                   stored, routes, storeErr, response, responses>>

\* searchTerm, err := buildRouteSearchTerm(input); if err != nil { 400 }
ValidateInput ==
    /\ pc = "input"
    /\ \E rj \in (IF HasUnsafe(input) THEN BOOLEAN ELSE {FALSE}) :
          LET res == buildRouteSearchTerm(input, rj)
          IN  /\ passRejects' = rj
              /\ IF res.err # NIL
                 THEN /\ response' = validationErrorResponse("input" :> <<res.err>>)
                      /\ responses' = responses + 1
                      /\ pc' = "done"
                      /\ UNCHANGED searchTerm
                 ELSE /\ searchTerm' = res.value
                      /\ pc' = "maxCount"
                      /\ UNCHANGED <<built, response, responses>>
    /\ UNCHANGED <<built, input, maxCountStr, ctxCanceled, maxCount, ctxSeen, requested,
                   stored, routes, storeErr>>

\* The maxCount block.
ValidateMaxCount ==
    /\ pc = "maxCount"
    /\ IF maxCountStr # <<>>
       THEN LET parsed == ParseInt(maxCountStr)
            IN  IF parsed.err # NIL \/ parsed.value <= 0
                THEN /\ response' = validationErrorResponse("maxCount" :> <<MsgPositive>>)
                     /\ responses' = responses + 1
                     /\ pc' = "done"
                     /\ UNCHANGED maxCount
                ELSE IF parsed.value > defaultMaxCount
                THEN /\ response' = validationErrorResponse(
                                        "maxCount" :> <<MsgExceed(defaultMaxCount)>>)
                     /\ responses' = responses + 1
                     /\ pc' = "done"
                     /\ UNCHANGED maxCount
                ELSE /\ maxCount' = parsed.value
                     /\ pc' = "ctx"
                     /\ UNCHANGED <<built, response, responses>>
       ELSE /\ maxCount' = defaultMaxCount
            /\ pc' = "ctx"
            /\ UNCHANGED <<built, response, responses>>
    /\ UNCHANGED <<built, input, maxCountStr, ctxCanceled, passRejects, searchTerm, ctxSeen,
                   requested, stored, routes, storeErr>>

\* A ctx.Err() that never reports the cancellation.
ctxErr_nil == NIL

\* ctx.Err()
ctxErr == IF ctxCanceled THEN ErrContext ELSE NIL

\* if ctx.Err() != nil { serverErrorResponse }
CheckCtx ==
    /\ pc = "ctx"
    /\ IF ctxErr # NIL
       THEN /\ ctxSeen' = "canceled"
            /\ response' = serverErrorResponse(ctxErr)
            /\ responses' = responses + 1
            /\ pc' = "done"
       ELSE /\ ctxSeen' = "ok"
            /\ pc' = "query"
            /\ UNCHANGED <<built, response, responses>>
    /\ UNCHANGED <<built, input, maxCountStr, ctxCanceled, passRejects, searchTerm, maxCount,
                   requested, stored, routes, storeErr>>

\* The call of SearchRoutesByName with MaxCount: maxCount + 1.
IssueQuery ==
    /\ pc = "query"
    /\ requested' = Append(requested, OverFetch(maxCount))
    /\ pc' = "wait"
    /\ UNCHANGED <<built, input, maxCountStr, ctxCanceled, passRejects, searchTerm, maxCount,
                   ctxSeen, stored, routes, storeErr, response, responses>>

\* The store fails: if err != nil { serverErrorResponse }
QueryFails ==
    /\ pc = "wait"
    /\ storeErr' = ErrStore
    /\ response' = serverErrorResponse(ErrStore)
    /\ responses' = responses + 1
    /\ pc' = "done"
    /\ UNCHANGED <<built, input, maxCountStr, ctxCanceled, passRejects, searchTerm, maxCount,
                   ctxSeen, requested, stored, routes>>

\* The store returns rows: the handler trims them, builds the list and the
\* references and sends the response.
QueryReturns ==
    /\ pc = "wait"
    /\ \E matching \in Matches :
          LET rows == SearchRoutesByName(matching, requested[Len(requested)])
              limitExceeded == LimitExceeded(rows, maxCount)
              kept == Trim(rows, maxCount)
              agencies == FilterAgencies(Agencies, AgencyIDsOf(kept))
          IN  /\ stored' = matching
              /\ routes' = rows
              /\ response' = okResponse(limitExceeded, RoutesList(kept), agencies)
    /\ responses' = responses + 1
    /\ pc' = "done"
    /\ UNCHANGED <<built, input, maxCountStr, ctxCanceled, passRejects, searchTerm, maxCount,
                   ctxSeen, requested, storeErr>>

\* The request is over; its entities are discarded and the next one may arrive.
Finish ==
    /\ pc = "done"
    /\ pc' = "idle"
    /\ input' = <<>>
    /\ maxCountStr' = <<>>
    /\ ctxCanceled' = FALSE
    /\ passRejects' = FALSE
    /\ searchTerm' = <<>>
    /\ maxCount' = 0
    /\ ctxSeen' = "unchecked"
    /\ requested' = <<>>
    /\ stored' = <<>>
    /\ routes' = <<>>
    /\ storeErr' = NIL
    /\ response' = NoResponse
    /\ responses' = 0
    /\ UNCHANGED built

Next ==
    \/ Receive
    \/ Cancel
    \/ ValidateInput
    \/ ValidateMaxCount
    \/ CheckCtx
    \/ IssueQuery
    \/ QueryFails
    \/ QueryReturns
    \/ Finish

Spec == Init /\ [][Next]_vars

\* ------------------------------------- buildRouteSearchTerm called directly
TermInputs == Strs(InputAlphabet, MaxTermLen)

InitTerm ==
    /\ pc = "call"
    /\ input \in TermInputs
    /\ passRejects \in BOOLEAN
    /\ maxCountStr = <<>>
    /\ ctxCanceled = FALSE
    /\ searchTerm = <<>>
    /\ maxCount = 0
    /\ ctxSeen = "unchecked"
    /\ requested = <<>>
    /\ stored = <<>>
    /\ routes = <<>>
    /\ storeErr = NIL
    /\ response = NoResponse
    /\ responses = 0
    /\ built = NoResult

\* buildRouteSearchTerm(input)
BuildTerm ==
    /\ pc = "call"
    /\ built' = buildRouteSearchTerm(input, passRejects)
    /\ pc' = "returned"
    /\ UNCHANGED <<input, maxCountStr, ctxCanceled, passRejects, searchTerm, maxCount,
                   ctxSeen, requested, stored, routes, storeErr, response, responses>>

NextTerm == BuildTerm

SpecTerm == InitTerm /\ [][NextTerm]_vars

TypeOK ==
    /\ pc \in {"idle", "input", "maxCount", "ctx", "query", "wait", "done"}
    /\ input \in Inputs
    /\ built = NoResult
    /\ maxCountStr \in Counts
    /\ ctxCanceled \in BOOLEAN
    /\ passRejects \in BOOLEAN
    /\ maxCount \in 0..defaultMaxCount
    /\ ctxSeen \in {"unchecked", "ok", "canceled"}
    /\ storeErr \in {NIL, ErrStore}
    /\ responses \in 0..1

\* ================================================================ claims
Done == pc = "done"
Succeeded == Done /\ response.status = 200
\* The first k elements of a sequence.
Prefix(s, k) == [i \in 1..k |-> s[i]]
Range(s) == {s[i] : i \in 1..Len(s)}

\* ---------------------------------------------------------------- C1
\* C1: with limit v in 1..20 the handler asks the store for exactly v+1 rows;
\* when the store returns n rows (0 <= n <= v+1), limitExceeded is true iff
\* n > v and the list is the first min(n, v) returned rows in store order, so
\* never longer than v; n = 0 gives an empty list and limitExceeded false.
C1_OverFetchAndTrim ==
    /\ requested # <<>> => (maxCount \in 1..defaultMaxCount /\ requested = <<maxCount + 1>>)
    /\ Succeeded =>
          LET v == maxCount
              n == Len(routes)
              list == response.data.list
          IN  /\ n <= v + 1
              /\ response.data.limitExceeded = (n > v)
              /\ Len(list) = Min(n, v)
              /\ Len(list) <= v
              /\ \A i \in 1..Min(n, v) :
                    /\ list[i].agencyId = routes[i].AgencyID
                    /\ list[i].id = <<routes[i].AgencyID, "_", routes[i].ID>>
              /\ n = 0 => (list = <<>> /\ response.data.limitExceeded = FALSE)

\* A truncated result: the store returned v+1 rows and the list has v.
C1_Witness ==
    /\ Succeeded
    /\ Len(routes) = maxCount + 1
    /\ response.data.limitExceeded
    /\ Len(response.data.list) = maxCount

\* ---------------------------------------------------------------- C2
\* A base-10 integer: an optional sign, then one or more decimal digits.
IsInteger(s) ==
    LET d == IF s # <<>> /\ s[1] \in {"+", "-"} THEN SubSeq(s, 2, Len(s)) ELSE s
    IN  d # <<>> /\ \A i \in 1..Len(d) : d[i] \in Digits
Magnitude(s) == IF s[1] \in {"+", "-"} THEN SubSeq(s, 2, Len(s)) ELSE s
IsZero(s) == \A i \in 1..Len(Magnitude(s)) : Magnitude(s)[i] = "0"
NotPositive(s) == s[1] = "-" \/ IsZero(s)
\* The decimal writing of k in 0..99, without leading zeros.
Decimal(k) ==
    IF k < 10 THEN <<DigitChars[k + 1]>>
    ELSE <<DigitChars[(k \div 10) + 1], DigitChars[(k % 10) + 1]>>
\* s writes the number k (leading zeros allowed).
Writes(s, k) == StripZeros(Magnitude(s)) = (IF k = 0 THEN <<>> ELSE Decimal(k))
\* s is an integer greater than defaultMaxCount.
TooLarge(s) ==
    /\ IsInteger(s)
    /\ ~NotPositive(s)
    /\ \A k \in 1..defaultMaxCount : ~Writes(s, k)
\* s is an integer greater than the largest signed 64-bit value.
OutOfRange(s) ==
    /\ IsInteger(s)
    /\ ~NotPositive(s)
    /\ DigitsGreater(Magnitude(s), MaxInt64Digits)

MaxCountSettled == pc \in {"ctx", "query", "wait"} \/ (Done /\ "input" \notin DOMAIN response.fieldErrors)

\* How the claim resolves the parameter s; ok says whether it gives a limit.
Resolution(s) ==
    IF s = <<>> THEN [ok |-> TRUE, limit |-> defaultMaxCount]
    ELSE IF ~IsInteger(s) \/ NotPositive(s) THEN [ok |-> FALSE, msg |-> MsgPositive]
    ELSE IF TooLarge(s) THEN [ok |-> FALSE, msg |-> <<"maxCount must not exceed ", 20>>]
    ELSE [ok |-> TRUE, limit |-> CHOOSE k \in 1..defaultMaxCount : Writes(s, k)]

Resolved(r) ==
    IF r.ok
    THEN /\ maxCount = r.limit
         /\ "maxCount" \notin DOMAIN response.fieldErrors
    ELSE /\ Done
         /\ response.status = 400
         /\ response.fieldErrors = ("maxCount" :> <<r.msg>>)

\* C2: absent/empty maxCount gives limit 20; a string that is not a base-10
\* integer or whose value is <= 0 gives 400 "maxCount must be a positive
\* integer"; a value > 20 gives 400 "maxCount must not exceed 20"; otherwise
\* the value is the limit; the limit of the store query is always in 1..20.
C2_MaxCountResolution ==
    /\ MaxCountSettled => Resolved(Resolution(maxCountStr))
    /\ requested # <<>> => maxCount \in 1..defaultMaxCount

\* The same resolution for every parameter inside the signed 64-bit range, and
\* the limit of the store query in 1..20 for every parameter.
C2_ResolutionInRange ==
    /\ (MaxCountSettled /\ ~OutOfRange(maxCountStr)) => Resolved(Resolution(maxCountStr))
    /\ (MaxCountSettled /\ OutOfRange(maxCountStr)) =>
          (Done /\ response.status = 400
                /\ response.fieldErrors = ("maxCount" :> <<MsgPositive>>))
    /\ requested # <<>> => maxCount \in 1..defaultMaxCount

\* ---------------------------------------------------------------- C3
OnlyBlankOrQuotes(s) == \A i \in 1..Len(s) : s[i] \in {" ", "\"", "'"}

\* C3: an input made only of whitespace and quote characters (the empty or
\* absent input included) makes buildRouteSearchTerm fail with "input
\* parameter is required", and the handler answers 400 with the field error
\* input: "input parameter is required".
C3_BlankOrQuotesRequired ==
    (pc \notin {"idle", "input"} /\ OnlyBlankOrQuotes(input)) =>
        /\ Done
        /\ response.status = 400
        /\ response.fieldErrors = ("input" :> << <<"input parameter is required">> >>)
        /\ searchTerm = <<>>
        /\ requested = <<>>

\* A request whose input has a quote character and nothing but quotes and
\* whitespace has been answered.
C3_Witness ==
    /\ Done
    /\ input # <<>>
    /\ OnlyBlankOrQuotes(input)
    /\ \E i \in 1..Len(input) : input[i] \in {"\"", "'"}
    /\ \E i \in 1..Len(input) : input[i] = " "
    /\ response.status = 400

\* ---------------------------------------------------------------- C4
NotBlank(c) == c # " "
WithoutQuotes(s) == SelectSeq(s, LAMBDA c : c # "\"" /\ c # "'")
\* The positions where a whitespace-delimited token of s starts, in order.
TokenStarts(s) ==
    SelectSeq([i \in 1..Len(s) |-> i],
              LAMBDA i : NotBlank(s[i]) /\ (i = 1 \/ ~NotBlank(s[i - 1])))
TokenEnd(s, i) ==
    CHOOSE j \in i..Len(s) :
        /\ \A k \in i..j : NotBlank(s[k])
        /\ (j = Len(s) \/ ~NotBlank(s[j + 1]))
\* The tokens of s with their quote characters removed, those left empty
\* dropped, in token order.
TokenBodies(s) ==
    LET st == TokenStarts(s)
        raw == [m \in 1..Len(st) |-> WithoutQuotes(SubSeq(s, st[m], TokenEnd(s, st[m])))]
    IN  SelectSeq(raw, LAMBDA b : b # <<>>)
\* The positions of the double quotes of an expression, in order.
QuotePositions(e) == SelectSeq([i \in 1..Len(e) |-> i], LAMBDA i : e[i] = "\"")

\* e is the " AND "-joined sequence of the terms "body"* for the given bodies.
IsConjunctionOf(e, bodies) ==
    LET q == QuotePositions(e)
        k == Len(bodies)
    IN  /\ k >= 1
        /\ Len(q) = 2 * k
        /\ q[1] = 1
        /\ q[2 * k] + 1 = Len(e)
        /\ \A m \in 1..k :
              /\ SubSeq(e, q[2 * m - 1] + 1, q[2 * m] - 1) = bodies[m]
              /\ bodies[m] # <<>>
              /\ \A j \in 1..Len(bodies[m]) : bodies[m][j] \notin {"\"", "'"}
              /\ e[q[2 * m] + 1] = "*"
              /\ m < k => SubSeq(e, q[2 * m] + 2, q[2 * m + 1] - 1) = <<" ", "A", "N", "D", " ">>

\* C4: when buildRouteSearchTerm succeeds its result is the " AND "-joined
\* sequence of terms, one per whitespace-delimited token of the sanitized text
\* that keeps a character once its quote characters are removed, in token
\* order; each term is a double quote, a non-empty body without quote
\* characters, a double quote and an asterisk; nothing but the fixed AND stands
\* outside the quoted bodies.
C4_ExpressionShape ==
    (pc = "returned" /\ built.err = NIL) =>
        IsConjunctionOf(built.value,
                        TokenBodies(ValidateAndSanitizeQuery(input, passRejects).value))

\* A successful call with two different tokens, one carrying a quote character.
C4_Witness ==
    /\ pc = "returned"
    /\ built.err = NIL
    /\ Len(TokenBodies(input)) = 2
    /\ TokenBodies(input)[1] # TokenBodies(input)[2]
    /\ \E i \in 1..Len(input) : input[i] \in {"\"", "'"}
    /\ Len(QuotePositions(built.value)) = 4

\* ---------------------------------------------------------------- C5
\* The rows kept after trimming to the limit.
Retained == Prefix(routes, Min(Len(routes), maxCount))
NoDuplicates(s) == \A i, j \in 1..Len(s) : i # j => s[i] # s[j]

\* C5: in a successful response references.agencies holds exactly the agencies
\* whose id is carried by at least one retained row, each once; an agency
\* referenced only by the dropped over-fetch row, or by no row, is left out.
C5_AgenciesOfRetainedRows ==
    Succeeded =>
        /\ Range(response.data.agencies) =
              {a \in Range(Agencies) : \E i \in 1..Len(Retained) : Retained[i].AgencyID = a}
        /\ NoDuplicates(response.data.agencies)

\* Two retained rows of one agency, and a dropped row of another agency.
C5_Witness ==
    /\ Succeeded
    /\ maxCount = 2
    /\ Len(routes) = 3
    /\ routes[1].AgencyID = routes[2].AgencyID
    /\ routes[3].AgencyID # routes[1].AgencyID
    /\ response.data.agencies = <<routes[1].AgencyID>>

\* ---------------------------------------------------------------- C6
\* C6: a failure of buildRouteSearchTerm always carries the message "input
\* parameter is required", also when the general sanitation pass rejects the
\* input.
C6_OnlyRequiredMessage ==
    (Done /\ "input" \in DOMAIN response.fieldErrors) =>
        response.fieldErrors["input"] = << <<"input parameter is required">> >>

C8_CancelCheckedOnceBeforeQuery ==
    [][ /\ (pc = "ctx" /\ ctxCanceled) =>
              (pc' = "done" /\ response'.status = 500 /\ responses' = 1
                            /\ requested' = <<>>)
        /\ (pc = "ctx" /\ ~ctxCanceled /\ pc' # "ctx") => (pc' = "query" /\ responses' = 0)
        /\ (pc = "query" /\ pc' # "query") => (pc' = "wait" /\ Len(requested') = 1)
        /\ requested' # requested => (pc = "query" \/ pc' = "idle")
      ]_vars

\* A request canceled before the check has been answered without a query.
C8_Witness ==
    /\ Done
    /\ ctxSeen = "canceled"
    /\ ctxCanceled
    /\ response.status = 500
    /\ requested = <<>>

\* A request canceled after the check still gets its result.
C8_CanceledAfterCheck == Succeeded /\ ctxCanceled /\ ctxSeen = "ok"

\* ---------------------------------------------------------------- C9
FullPayload ==
    /\ DOMAIN response.data = {"present", "limitExceeded", "list", "agencies"}
    /\ response.data.present

\* C9: a handled request has exactly one response: a 400 validation failure,
\* a server error, or a 200 with the full payload (limitExceeded, list,
\* references). A request that passes validation and the cancellation check
\* issues exactly one store query; when that query fails the response is a
\* server error without list, limitExceeded or references.
C9_OneResponseNoPartialResults ==
    /\ responses = (IF Done THEN 1 ELSE 0)
    /\ Len(requested) <= 1
    /\ Done =>
          /\ response.status \in {200, 400, 500}
          /\ response.status = 200 => (FullPayload /\ response.fieldErrors = <<>>)
          /\ response.status = 400 => (response.data = NoData /\ response.fieldErrors # <<>>)
          /\ response.status = 500 => (response.data = NoData /\ response.fieldErrors = <<>>)
          /\ ctxSeen = "ok" <=> Len(requested) = 1
          /\ response.status = 200 => (Len(requested) = 1 /\ storeErr = NIL)
    /\ storeErr # NIL => (Done /\ response.status = 500 /\ response.data = NoData
                               /\ Len(requested) = 1)

\* A request whose store query failed has been answered.
C9_Witness ==
    /\ Done
    /\ storeErr # NIL
    /\ response.status = 500
    /\ Len(requested) = 1

\* ---------------------------------------------------------------- C10
InputInvalid == buildRouteSearchTerm(input, passRejects).err # NIL
CountInvalid ==
    /\ maxCountStr # <<>>
    /\ LET parsed == ParseInt(maxCountStr)
       IN  parsed.err # NIL \/ parsed.value <= 0 \/ parsed.value > defaultMaxCount

\* C10: validation is fail-fast in the order input, maxCount, cancellation
\* check, store query. A validation failure names one field with one message
\* and no store query is issued; a request with an invalid input and an
\* invalid maxCount reports the input only, and an invalid request on a
\* canceled context gets the 400, not a server error.
C10_FailFastOrder ==
    /\ pc \in {"maxCount", "ctx", "query", "wait"} => ~InputInvalid
    /\ pc \in {"ctx", "query", "wait"} => ~CountInvalid
    /\ pc \in {"idle", "input", "maxCount", "ctx"} => requested = <<>>
    /\ pc \in {"idle", "input", "maxCount"} => ctxSeen = "unchecked"
    /\ Done =>
          /\ InputInvalid =>
                (response.status = 400 /\ DOMAIN response.fieldErrors = {"input"})
          /\ (~InputInvalid /\ CountInvalid) =>
                (response.status = 400 /\ DOMAIN response.fieldErrors = {"maxCount"})
          /\ response.status = 400 =>
                /\ Cardinality(DOMAIN response.fieldErrors) = 1
                /\ \A f \in DOMAIN response.fieldErrors : Len(response.fieldErrors[f]) = 1
                /\ requested = <<>>
                /\ ctxSeen = "unchecked"
          /\ response.status \in {200, 500} => (~InputInvalid /\ ~CountInvalid)

\* Both parameters invalid on a canceled context: only the input is reported.
C10_Witness ==
    /\ Done
    /\ InputInvalid
    /\ CountInvalid
    /\ ctxCanceled
    /\ response.status = 400
    /\ DOMAIN response.fieldErrors = {"input"}
====
